---------------------------- MODULE Spec2Model ----------------------------
(***************************************************************************)
(* Secret-Santa raffle (src/app.py): the constrained random assignment,    *)
(* its two-table store, the one-time PIN-gated reveal and the admin reset   *)
(* and admin view.                                                          *)
(*                                                                          *)
(* Text (names, PINs, keys, form fields) is a sequence of one-character     *)
(* strings, so that str.strip() is computed and not assumed.  Python's None *)
(* is the value None, which is no text.                                     *)
(***************************************************************************)
EXTENDS Integers, Sequences, FiniteSets, TLC

VARIABLES
    NAMES,            \* configured roster (a sequence of names)
    PIN_REQUIRED,     \* configured flag
    PINS,             \* configured dict name -> PIN
    FORBIDDEN_PAIRS,  \* configured set of <<giver, receiver>>
    ADMIN_KEY,        \* environment variable ADMIN_KEY, None when unset
    tables,           \* TRUE once init_db has created the two tables
    assignments,      \* rows of table assignments: [giver, receiver]
    revealed,         \* rows of table revealed: [giver, revealed_at]
    last,             \* the last request served and its response
    disclosed,        \* history: givers shown their receiver since the last successful reset
    genResult,        \* the value of the last generate_secret_santa call
    pc,               \* per worker: position inside its request handler
    req,              \* per worker: the request being served
    loc,              \* per worker: the handler's local variables
    resp,             \* per worker: the response of its finished request
    snap              \* history: the store when the running batch of requests began

config == <<NAMES, PIN_REQUIRED, PINS, FORBIDDEN_PAIRS, ADMIN_KEY>>
store  == <<tables, assignments, revealed>>
procs  == <<pc, req, loc, resp, snap>>
vars   == <<NAMES, PIN_REQUIRED, PINS, FORBIDDEN_PAIRS, ADMIN_KEY, tables,
            assignments, revealed, last, disclosed, genResult, pc, req, loc,
            resp, snap>>

-----------------------------------------------------------------------------
(* Bounds of the model *)

\* largest roster handed to the generator
MaxRoster == 3
\* largest forbidden-pair set handed to the generator
MaxForbidden == 2
\* iterations of the retry loop (range(5000) in the source)
Attempts == 2
\* timestamps datetime.utcnow() can return are 0..MaxTime
MaxTime == 1

-----------------------------------------------------------------------------
(* Values *)

\* Python's None: a value that is no text (its one element is no character)
None == <<"None">>

A == <<"A">>
B == <<"B">>
C == <<"C">>
D == <<"D">>
Z == <<"Z">>

People == <<A, B, C, D>>

Range(s) == {s[i] : i \in DOMAIN s}

Times == 0..MaxTime

\* what a call of the generator produces: a returned dict or a raised RuntimeError
Return(mapping) == [raised |-> FALSE, mapping |-> mapping]
RuntimeError == [raised |-> TRUE, mapping |-> {}]

-----------------------------------------------------------------------------
(* Text *)

IsSpace(c) == c = " "

RECURSIVE lstrip(_)
lstrip(s) ==
    IF s # <<>> /\ IsSpace(Head(s)) THEN lstrip(Tail(s)) ELSE s

RECURSIVE rstrip(_)
rstrip(s) ==
    IF s # <<>> /\ IsSpace(s[Len(s)]) THEN rstrip(SubSeq(s, 1, Len(s) - 1)) ELSE s

\* str.strip(): leading and trailing whitespace removed
strip(s) == rstrip(lstrip(s))

\* dict.get(key, default) of a form, of the query string or of os.environ:
\* value is None when the key is absent
Get(value, default) == IF value = None THEN default ELSE value

-----------------------------------------------------------------------------
(* Assignment generator *)

\* is_valid_pair without its first test
is_valid_pair_self_allowed(giver, receiver) ==
    IF <<giver, receiver>> \in FORBIDDEN_PAIRS THEN FALSE ELSE TRUE

\* is_valid_pair without its second test
is_valid_pair_forbidden_ignored(giver, receiver) ==
    IF giver = receiver THEN FALSE ELSE TRUE

\* is_valid_pair: no self-assignment, no forbidden pair
is_valid_pair(giver, receiver) ==
    IF giver = receiver THEN FALSE
    ELSE IF <<giver, receiver>> \in FORBIDDEN_PAIRS THEN FALSE
    ELSE TRUE

\* receivers drawn name by name with replacement instead of shuffled
Shuffles_with_repeats(names) == [1..Len(names) -> Range(names)]

\* the orders random.shuffle can leave a copy of names in
Shuffles(names) ==
    LET n == Len(names)
        sigma == {s \in [1..n -> 1..n] : \A i, j \in 1..n : s[i] = s[j] => i = j}
    IN  {[i \in 1..n |-> names[s[i]]] : s \in sigma}

\* ok after the inner loop: every zipped pair is valid
AllPairsValid(names, receivers) ==
    \A i \in 1..Len(names) : is_valid_pair(names[i], receivers[i])

\* dict(zip(names, receivers)) as rows [giver, receiver]; a repeated key keeps
\* its last value
DictZip(names, receivers) ==
    {[giver |-> names[i], receiver |-> receivers[i]] :
        i \in {k \in 1..Len(names) :
                 \A j \in 1..Len(names) : names[j] = names[k] => j <= k}}

\* the retry loop falling back to its last shuffle instead of raising
RECURSIVE RetryLoop_returns_last(_, _)
RetryLoop_returns_last(names, n) ==
    IF n = 0 THEN {Return(DictZip(names, receivers)) : receivers \in Shuffles(names)}
    ELSE LET rest == RetryLoop_returns_last(names, n - 1)
         IN  UNION {IF AllPairsValid(names, receivers)
                    THEN {Return(DictZip(names, receivers))}
                    ELSE rest : receivers \in Shuffles(names)}

\* what the retry loop can return with n iterations left: the first valid
\* shuffle, or RuntimeError when every shuffle drawn was invalid
RECURSIVE RetryLoop(_, _)
RetryLoop(names, n) ==
    IF n = 0 THEN {RuntimeError}
    ELSE LET rest == RetryLoop(names, n - 1)
         IN  UNION {IF AllPairsValid(names, receivers)
                    THEN {Return(DictZip(names, receivers))}
                    ELSE rest : receivers \in Shuffles(names)}

\* generate_secret_santa(names): the set of values the call can produce
generate_secret_santa(names) == RetryLoop(names, Attempts)

-----------------------------------------------------------------------------
(* Assignment store: the two tables, one operator per access function.  A    *)
(* store value st is [tables, assignments, revealed].                        *)

Store(t, a, r) == [tables |-> t, assignments |-> a, revealed |-> r]

\* init_db: CREATE TABLE IF NOT EXISTS, twice
init_db(st) == [st EXCEPT !.tables = TRUE]

\* assignments_exist counting the wrong table
assignments_exist_counts_revealed(st) == Cardinality(st.revealed) > 0

\* assignments_exist: SELECT COUNT(*) > 0
assignments_exist(st) == Cardinality(st.assignments) > 0

\* revealed_set: the givers of table revealed
revealed_set(st) == {r.giver : r \in st.revealed}

\* load_receiver: the receiver of giver's row, None without a row
load_receiver(st, giver) ==
    LET rows == {a \in st.assignments : a.giver = giver}
    IN  IF rows # {} THEN (CHOOSE a \in rows : TRUE).receiver ELSE None

\* mark_revealed whose insert is never committed
mark_revealed_uncommitted(st, giver, now) == st

\* mark_revealed with INSERT OR REPLACE
mark_revealed_replaces(st, giver, now) ==
    [st EXCEPT !.revealed = {r \in @ : r.giver # giver}
                               \cup {[giver |-> giver, revealed_at |-> now]}]

\* mark_revealed emptying the table before its insert
mark_revealed_overwrites(st, giver, now) ==
    [st EXCEPT !.revealed = {[giver |-> giver, revealed_at |-> now]}]

\* mark_revealed: INSERT OR IGNORE of (giver, now) under the primary key giver
mark_revealed(st, giver, now) ==
    IF \E r \in st.revealed : r.giver = giver
    THEN st
    ELSE [st EXCEPT !.revealed = @ \cup {[giver |-> giver, revealed_at |-> now]}]

\* save_assignments without DELETE FROM revealed
save_assignments_keeps_revealed(st, mapping) ==
    [st EXCEPT !.assignments = mapping]

\* save_assignments without DELETE FROM assignments
save_assignments_appends(st, mapping) ==
    [st EXCEPT !.assignments = @ \cup mapping, !.revealed = {}]

\* save_assignments: one transaction that empties both tables and inserts
\* the mapping's items
save_assignments(st, mapping) ==
    [st EXCEPT !.assignments = mapping, !.revealed = {}]

-----------------------------------------------------------------------------
(* Responses *)

NoRows == {}

Response(status, receiver, people, listed, rows1, rows2) ==
    [status |-> status, receiver |-> receiver, people |-> people,
     listed |-> listed, listedAssignments |-> rows1, listedRevealed |-> rows2]

\* a redirect with a flashed error, "Unauthorized" 401, or an uncaught exception
Plain(status) == Response(status, None, <<>>, FALSE, NoRows, NoRows)

\* render_template("index.html", people = ...)
IndexPage(st) ==
    Response("Index", None,
             [i \in 1..Len(NAMES) |->
                 [name |-> NAMES[i], disabled |-> NAMES[i] \in revealed_set(st)]],
             FALSE, NoRows, NoRows)

\* render_template("reveal.html", giver, receiver)
RevealPage(receiver) == Response("Revealed", receiver, <<>>, FALSE, NoRows, NoRows)

\* the listing admin_view returns
AdminPage(st) ==
    Response("AdminView", None, <<>>, TRUE, st.assignments, st.revealed)

Outcome(st, response) == [store |-> st, response |-> response]

-----------------------------------------------------------------------------
(* Request handlers, each run from its first line to its return *)

\* index(): GET /, with out the value its generate_secret_santa call produces
index(st0, out) ==
    LET st == init_db(st0)
    IN  IF ~assignments_exist(st)
        THEN IF out.raised
             THEN Outcome(st, Plain("ServerError"))
             ELSE LET st2 == save_assignments(st, out.mapping)
                  IN  Outcome(st2, IndexPage(st2))
        ELSE Outcome(st, IndexPage(st))

\* the PIN test letting a name without a PINS entry through
BadPin_only_configured(giver, pin) ==
    PIN_REQUIRED /\ giver \in DOMAIN PINS /\ pin # PINS[giver]

\* the PIN test of reveal()
BadPin(giver, pin) ==
    PIN_REQUIRED /\ (giver \notin DOMAIN PINS \/ pin # PINS[giver])

\* reveal() testing the PIN before the reveal record
reveal_pin_first(st0, giverField, pinField, now) ==
    LET st == init_db(st0)
        giver == strip(Get(giverField, <<>>))
        pin == strip(Get(pinField, <<>>))
        receiver == load_receiver(st, giver)
    IN  IF giver \notin Range(NAMES) THEN Outcome(st, Plain("InvalidName"))
        ELSE IF BadPin(giver, pin) THEN Outcome(st, Plain("BadPin"))
        ELSE IF giver \in revealed_set(st) THEN Outcome(st, Plain("AlreadyRevealed"))
        ELSE IF receiver = None \/ receiver = <<>>
             THEN Outcome(st, Plain("MissingAssignment"))
        ELSE Outcome(mark_revealed(st, giver, now), RevealPage(receiver))

\* reveal() marking the giver before it looks the receiver up
reveal_marks_before_lookup(st0, giverField, pinField, now) ==
    LET st == init_db(st0)
        giver == strip(Get(giverField, <<>>))
        pin == strip(Get(pinField, <<>>))
        receiver == load_receiver(st, giver)
    IN  IF giver \notin Range(NAMES) THEN Outcome(st, Plain("InvalidName"))
        ELSE IF giver \in revealed_set(st) THEN Outcome(st, Plain("AlreadyRevealed"))
        ELSE IF BadPin(giver, pin) THEN Outcome(st, Plain("BadPin"))
        ELSE IF receiver = None \/ receiver = <<>>
             THEN Outcome(mark_revealed(st, giver, now), Plain("MissingAssignment"))
        ELSE Outcome(mark_revealed(st, giver, now), RevealPage(receiver))

\* reveal(): POST /reveal with form fields giver and pin (None when absent),
\* at time now
reveal(st0, giverField, pinField, now) ==
    LET st == init_db(st0)
        giver == strip(Get(giverField, <<>>))
        pin == strip(Get(pinField, <<>>))
        receiver == load_receiver(st, giver)
    IN  IF giver \notin Range(NAMES) THEN Outcome(st, Plain("InvalidName"))
        ELSE IF giver \in revealed_set(st) THEN Outcome(st, Plain("AlreadyRevealed"))
        ELSE IF BadPin(giver, pin) THEN Outcome(st, Plain("BadPin"))
        ELSE IF receiver = None \/ receiver = <<>>
             THEN Outcome(st, Plain("MissingAssignment"))
        ELSE Outcome(mark_revealed(st, giver, now), RevealPage(receiver))

\* the key test without "not admin_key"
ResetUnauthorized_empty_allowed(keyField) ==
    Get(keyField, <<>>) # Get(ADMIN_KEY, <<>>)

\* the key test of admin_reset()
ResetUnauthorized(keyField) ==
    LET admin_key == Get(ADMIN_KEY, <<>>)
        provided == Get(keyField, <<>>)
    IN  admin_key = <<>> \/ provided # admin_key

\* admin_reset(): POST /admin/reset with form field admin_key
admin_reset(st0, keyField, out) ==
    LET st == init_db(st0)
    IN  IF ResetUnauthorized(keyField) THEN Outcome(st, Plain("Unauthorized"))
        ELSE IF out.raised THEN Outcome(st, Plain("ServerError"))
        ELSE Outcome(save_assignments(st, out.mapping), Plain("Redirect"))

\* the key test of admin_view()
ViewUnauthorized(keyParam) == keyParam # ADMIN_KEY

\* admin_view(): GET /admin with query parameter key; it does not call init_db,
\* so its SELECTs raise while the tables do not exist
admin_view(st, keyParam) ==
    IF ViewUnauthorized(keyParam) THEN Outcome(st, Plain("Unauthorized"))
    ELSE IF ~st.tables THEN Outcome(st, Plain("ServerError"))
    ELSE Outcome(st, AdminPage(st))

-----------------------------------------------------------------------------
(* Configurations and request inputs *)

Pin(n) == IF n = A THEN <<"1">> ELSE IF n = B THEN <<"2">> ELSE <<"3">>

\* PINS with an entry for every name of the roster
FullPins(names) == [n \in Range(names) |-> Pin(n)]

\* PINS without an entry for the roster's last name
PartialPins(names) == [n \in Range(names) \ {names[Len(names)]} |-> Pin(n)]

Config(names, forbidden, required, pins, key) ==
    [names |-> names, forbidden |-> forbidden, required |-> required,
     pins |-> pins, key |-> key]

\* rosters and forbidden sets the application is run with: the scenario
\* roster with and without its forbidden pair, and an infeasible one
AppRosters ==
    {<<(<<A, B, C>>), {}>>, <<(<<A, B, C>>), {<<A, B>>}>>, <<(<<A, B>>), {<<A, B>>}>>}

AdminKeys == {None, <<>>, <<"k">>}

\* PIN settings and admin secrets: every secret with the source's PIN settings
\* (required, a PIN for everyone), and a set secret with the other PIN settings
AppSettings ==
    {<<TRUE, "full", k>> : k \in AdminKeys}
        \cup {<<TRUE, "partial", <<"k">>>>, <<FALSE, "full", <<"k">>>>}

AppConfigs ==
    {Config(r[1], r[2], t[1], t[2], t[3]) : r \in AppRosters, t \in AppSettings}

PinsOf(c) == IF c.pins = "full" THEN FullPins(c.names) ELSE PartialPins(c.names)

\* form field giver: the names, a padded name, an unknown name
GiverFields == {A, B, C, <<"A", " ">>, Z}

\* form field pin: the PINs and a padded PIN
PinFields == {<<"1">>, <<"2">>, <<"3">>, <<" ", "1">>}

\* form field admin_key and query parameter key
KeyFields == {None, <<>>, <<"k">>, <<"x">>}

NoRequest == [op |-> "none", args |-> <<>>, response |-> Plain("none")]

NotCalled == [called |-> FALSE, raised |-> FALSE, mapping |-> {}]

Called(out) == [called |-> TRUE, raised |-> out.raised, mapping |-> out.mapping]

Workers == {1, 2}

Idle == [op |-> "none", args |-> <<>>]

NoLocals == [giver |-> None, pin |-> None, receiver |-> None, now |-> 0,
             out |-> RuntimeError, rows |-> {}]

EmptyStore == Store(FALSE, {}, {})

InitConfig(c) ==
    /\ NAMES = c.names
    /\ FORBIDDEN_PAIRS = c.forbidden
    /\ PIN_REQUIRED = c.required
    /\ PINS = PinsOf(c)
    /\ ADMIN_KEY = c.key

\* a fresh database file and no request served yet
InitStore ==
    /\ tables = FALSE
    /\ assignments = {}
    /\ revealed = {}
    /\ last = NoRequest
    /\ disclosed = {}

InitWorkers ==
    /\ pc = [w \in Workers |-> "idle"]
    /\ req = [w \in Workers |-> Idle]
    /\ loc = [w \in Workers |-> NoLocals]
    /\ resp = [w \in Workers |-> Plain("none")]
    /\ snap = EmptyStore

-----------------------------------------------------------------------------
(* Requests served one after the other *)

St == Store(tables, assignments, revealed)

Serve(op, args, o) ==
    /\ tables' = o.store.tables
    /\ assignments' = o.store.assignments
    /\ revealed' = o.store.revealed
    /\ last' = [op |-> op, args |-> args, response |-> o.response]
    /\ UNCHANGED <<config, genResult, procs>>

Index ==
    \E out \in generate_secret_santa(NAMES) :
        /\ Serve("index", <<>>, index(St, out))
        /\ UNCHANGED disclosed

\* the instants a reveal request can read from the clock: it reads the clock
\* only inside mark_revealed
ClockReads(st, giverField, pinField) ==
    IF reveal(st, giverField, pinField, 0).response.status = "Revealed"
    THEN Times ELSE {0}

Reveal ==
    \E giverField \in GiverFields, pinField \in PinFields :
      \E now \in ClockReads(St, giverField, pinField) :
        LET o == reveal(St, giverField, pinField, now)
        IN  /\ Serve("reveal", <<giverField, pinField>>, o)
            /\ disclosed' = IF o.response.status = "Revealed"
                             THEN disclosed \cup {strip(giverField)}
                             ELSE disclosed

AdminReset ==
    \E out \in generate_secret_santa(NAMES), keyField \in KeyFields :
        LET o == admin_reset(St, keyField, out)
        IN  /\ Serve("admin_reset", <<keyField>>, o)
            /\ disclosed' = IF o.response.status = "Redirect" THEN {} ELSE disclosed

AdminView ==
    \E keyParam \in KeyFields :
        /\ Serve("admin_view", <<keyParam>>, admin_view(St, keyParam))
        /\ UNCHANGED disclosed

Init ==
    /\ \E c \in AppConfigs : InitConfig(c)
    /\ InitStore
    /\ InitWorkers
    /\ genResult = NotCalled

Next == Index \/ Reveal \/ AdminReset \/ AdminView

Spec == Init /\ [][Next]_vars

-----------------------------------------------------------------------------
(* The generator alone, over every roster and forbidden set within the bounds *)

Rosters == {SubSeq(People, 1, n) : n \in 2..MaxRoster}

ForbiddenSets(names) ==
    {F \in SUBSET (Range(names) \X Range(names)) : Cardinality(F) <= MaxForbidden}

InitGen ==
    /\ \E names \in Rosters : \E F \in ForbiddenSets(names) :
          InitConfig(Config(names, F, TRUE, "full", None))
    /\ InitStore
    /\ InitWorkers
    /\ genResult = NotCalled

Generate ==
    /\ \E out \in generate_secret_santa(NAMES) : genResult' = Called(out)
    /\ UNCHANGED <<config, store, last, disclosed, procs>>

NextGen == Generate

SpecGen == InitGen /\ [][NextGen]_vars

-----------------------------------------------------------------------------
(* Requests served concurrently by two workers.  Every access to the store   *)
(* (one sqlite transaction or autocommitted statement) is one step; what a   *)
(* handler computes between two accesses belongs to the step before it.      *)
(* Requests run in batches: a worker that has answered waits until the other *)
(* has answered too, and snap is the store the batch started from.           *)

ConcConfigs ==
    {Config(<<A, B, C>>, F, TRUE, "full", <<"k">>) : F \in {{}, {<<A, B>>}}}

ConcGiverFields == {A, B, Z}
ConcPinFields == {<<"1">>, <<"2">>}
ConcKeyFields == {<<"k">>, <<"x">>}

Request(op, args) == [op |-> op, args |-> args]

SetStore(st) ==
    /\ tables' = st.tables
    /\ assignments' = st.assignments
    /\ revealed' = st.revealed

\* worker w takes a request; a batch starts when no worker is serving one
Begin(w, request) ==
    /\ pc[w] = "idle"
    /\ req' = [req EXCEPT ![w] = request]
    /\ snap' = IF \A v \in Workers : pc[v] = "idle" THEN St ELSE snap

\* worker w returns response r
Answer(w, r) ==
    /\ pc' = [pc EXCEPT ![w] = "done"]
    /\ resp' = [resp EXCEPT ![w] = r]

Goto(w, label) ==
    /\ pc' = [pc EXCEPT ![w] = label]
    /\ UNCHANGED resp

Frame == UNCHANGED <<config, last, disclosed, genResult>>

\* index(), line 151: init_db
StartIndex(w) ==
    /\ Begin(w, Request("index", <<>>))
    /\ SetStore(init_db(St))
    /\ Goto(w, "index_exists")
    /\ UNCHANGED loc
    /\ Frame

\* index(), lines 154-155: assignments_exist, then generate_secret_santa
IndexExists(w) ==
    /\ pc[w] = "index_exists"
    /\ IF assignments_exist(St)
       THEN Goto(w, "index_render") /\ UNCHANGED loc
       ELSE \E out \in generate_secret_santa(NAMES) :
              /\ loc' = [loc EXCEPT ![w].out = out]
              /\ IF out.raised
                 THEN Answer(w, Plain("ServerError"))
                 ELSE Goto(w, "index_save")
    /\ UNCHANGED <<store, req, snap>>
    /\ Frame

\* index(), line 156: save_assignments
IndexSave(w) ==
    /\ pc[w] = "index_save"
    /\ SetStore(save_assignments(St, loc[w].out.mapping))
    /\ Goto(w, "index_render")
    /\ UNCHANGED <<req, loc, snap>>
    /\ Frame

\* index(), lines 158-168: revealed_set and the page
IndexRender(w) ==
    /\ pc[w] = "index_render"
    /\ Answer(w, IndexPage(St))
    /\ UNCHANGED <<store, req, loc, snap>>
    /\ Frame

\* reveal()'s last two statements with the page returned before the mark
RevealTail_return_first == <<"reveal_return", "reveal_mark">>

\* reveal(), lines 198-200: the order of its last two statements, mark_revealed
\* and the return of the page
RevealTail == <<"reveal_mark", "reveal_return">>

\* where the handler goes after the statement at label
AfterTail(label) == IF RevealTail[1] = label THEN RevealTail[2] ELSE "done"

\* reveal(), lines 173-180: init_db, the form fields, the name test
StartReveal(w) ==
    \E giverField \in ConcGiverFields, pinField \in ConcPinFields :
        LET giver == strip(Get(giverField, <<>>))
            pin == strip(Get(pinField, <<>>))
        IN  /\ Begin(w, Request("reveal", <<giverField, pinField>>))
            /\ SetStore(init_db(St))
            /\ loc' = [loc EXCEPT ![w].giver = giver, ![w].pin = pin]
            /\ IF giver \notin Range(NAMES)
               THEN Answer(w, Plain("InvalidName"))
               ELSE Goto(w, "reveal_check")
            /\ Frame

\* reveal(), lines 183-190: revealed_set, then the PIN test
RevealCheck(w) ==
    /\ pc[w] = "reveal_check"
    /\ IF loc[w].giver \in revealed_set(St) THEN Answer(w, Plain("AlreadyRevealed"))
       ELSE IF BadPin(loc[w].giver, loc[w].pin) THEN Answer(w, Plain("BadPin"))
       ELSE Goto(w, "reveal_load")
    /\ UNCHANGED <<store, req, loc, snap>>
    /\ Frame

\* reveal(), lines 192-195: load_receiver
RevealLoad(w) ==
    /\ pc[w] = "reveal_load"
    /\ LET receiver == load_receiver(St, loc[w].giver)
       IN  /\ loc' = [loc EXCEPT ![w].receiver = receiver]
           /\ IF receiver = None \/ receiver = <<>>
              THEN Answer(w, Plain("MissingAssignment"))
              ELSE Goto(w, RevealTail[1])
    /\ UNCHANGED <<store, req, snap>>
    /\ Frame

\* reveal(), line 198: mark_revealed
RevealMark(w) ==
    /\ pc[w] = "reveal_mark"
    /\ \E now \in Times :
          /\ SetStore(mark_revealed(St, loc[w].giver, now))
          /\ loc' = [loc EXCEPT ![w].now = now]
    /\ Goto(w, AfterTail("reveal_mark"))
    /\ UNCHANGED <<req, snap>>
    /\ Frame

\* reveal(), line 200: the page with the receiver goes to the caller
RevealReturn(w) ==
    /\ pc[w] = "reveal_return"
    /\ pc' = [pc EXCEPT ![w] = AfterTail("reveal_return")]
    /\ resp' = [resp EXCEPT ![w] = RevealPage(loc[w].receiver)]
    /\ UNCHANGED <<store, req, loc, snap>>
    /\ Frame

\* admin_reset(), lines 208-215: init_db, the key test, generate_secret_santa
StartReset(w) ==
    \E out \in generate_secret_santa(NAMES), keyField \in ConcKeyFields :
        /\ Begin(w, Request("admin_reset", <<keyField>>))
        /\ SetStore(init_db(St))
        /\ IF ResetUnauthorized(keyField)
           THEN Answer(w, Plain("Unauthorized")) /\ UNCHANGED loc
           ELSE /\ loc' = [loc EXCEPT ![w].out = out]
                /\ IF out.raised
                   THEN Answer(w, Plain("ServerError"))
                   ELSE Goto(w, "reset_save")
        /\ Frame

\* admin_reset(), lines 216-217: save_assignments and the redirect
ResetSave(w) ==
    /\ pc[w] = "reset_save"
    /\ SetStore(save_assignments(St, loc[w].out.mapping))
    /\ Answer(w, Plain("Redirect"))
    /\ UNCHANGED <<req, loc, snap>>
    /\ Frame

\* admin_view(), lines 226-228: the key test
StartView(w) ==
    \E keyParam \in ConcKeyFields :
        /\ Begin(w, Request("admin_view", <<keyParam>>))
        /\ IF ViewUnauthorized(keyParam)
           THEN Answer(w, Plain("Unauthorized"))
           ELSE Goto(w, "view_assignments")
        /\ UNCHANGED <<store, loc>>
        /\ Frame

\* admin_view(), line 231: SELECT ... FROM assignments
ViewAssignments(w) ==
    /\ pc[w] = "view_assignments"
    /\ IF ~tables
       THEN Answer(w, Plain("ServerError")) /\ UNCHANGED loc
       ELSE /\ loc' = [loc EXCEPT ![w].rows = assignments]
            /\ Goto(w, "view_revealed")
    /\ UNCHANGED <<store, req, snap>>
    /\ Frame

\* admin_view(), lines 232-249: SELECT ... FROM revealed and the page
ViewRevealed(w) ==
    /\ pc[w] = "view_revealed"
    /\ Answer(w, AdminPage(Store(tables, loc[w].rows, revealed)))
    /\ UNCHANGED <<store, req, loc, snap>>
    /\ Frame

\* every worker has answered: the batch ends
Settle ==
    /\ \A w \in Workers : pc[w] \in {"idle", "done"}
    /\ \E w \in Workers : pc[w] = "done"
    /\ pc' = [w \in Workers |-> "idle"]
    /\ req' = [w \in Workers |-> Idle]
    /\ loc' = [w \in Workers |-> NoLocals]
    /\ resp' = [w \in Workers |-> Plain("none")]
    /\ UNCHANGED <<store, snap>>
    /\ Frame

InitConc ==
    /\ \E c \in ConcConfigs : InitConfig(c)
    /\ InitStore
    /\ InitWorkers
    /\ genResult = NotCalled

Step(w) ==
    \/ StartIndex(w)
    \/ IndexExists(w)
    \/ IndexSave(w)
    \/ IndexRender(w)
    \/ StartReveal(w)
    \/ RevealCheck(w)
    \/ RevealLoad(w)
    \/ RevealMark(w)
    \/ RevealReturn(w)
    \/ StartReset(w)
    \/ ResetSave(w)
    \/ StartView(w)
    \/ ViewAssignments(w)
    \/ ViewRevealed(w)

NextConc == (\E w \in Workers : Step(w)) \/ Settle

SpecConc == InitConc /\ [][NextConc]_vars

-----------------------------------------------------------------------------
(* One worker serving requests one after the other, its process liable to    *)
(* die between any two statements of a handler.                              *)

\* the worker's process dies inside a handler: nothing more is executed; what
\* it had already sent to the caller stays sent
Crash(w) ==
    /\ pc[w] \notin {"idle", "done"}
    /\ pc' = [pc EXCEPT ![w] = "done"]
    /\ resp' = [resp EXCEPT ![w] = IF resp[w].status = "none"
                                    THEN Plain("Crashed") ELSE resp[w]]
    /\ UNCHANGED <<store, req, loc, snap>>
    /\ Frame

NextCrash == Step(1) \/ Crash(1) \/ Settle

SpecCrash == InitConc /\ [][NextCrash]_vars

-----------------------------------------------------------------------------
(* Landing-page and reveal requests served concurrently, no admin request    *)

PublicStep(w) ==
    \/ StartIndex(w)
    \/ IndexExists(w)
    \/ IndexSave(w)
    \/ IndexRender(w)
    \/ StartReveal(w)
    \/ RevealCheck(w)
    \/ RevealLoad(w)
    \/ RevealMark(w)
    \/ RevealReturn(w)

NextPublic == (\E w \in Workers : PublicStep(w)) \/ Settle

SpecPublic == InitConc /\ [][NextPublic]_vars

-----------------------------------------------------------------------------
(* Properties *)

Givers(mapping) == {r.giver : r \in mapping}

\* every name of the roster is a giver once and a receiver once, and nobody else is
IsBijection(mapping, names) ==
    /\ Givers(mapping) = Range(names)
    /\ \A n \in Range(names) :
          /\ Cardinality({r \in mapping : r.giver = n}) = 1
          /\ Cardinality({r \in mapping : r.receiver = n}) = 1
    /\ \A r \in mapping : r.receiver \in Range(names)

NoSelfAssignment(mapping) == \A r \in mapping : r.receiver # r.giver

NoForbiddenPair(mapping) == \A r \in mapping : <<r.giver, r.receiver>> \notin FORBIDDEN_PAIRS

ValidAssignment(mapping) ==
    /\ IsBijection(mapping, NAMES)
    /\ NoSelfAssignment(mapping)
    /\ NoForbiddenPair(mapping)

Returned == genResult.called /\ ~genResult.raised

\* the participant a reveal request names
GiverOf(giverField) == strip(Get(giverField, <<>>))

\* C1: in every state a sequence of requests reaches, a participant who has been
\* shown their receiver since the last successful admin reset gets
\* AlreadyRevealed, no receiver and no change of the store from every further
\* reveal request, whatever PIN it carries.
C1_RevealExactlyOnce ==
    \A giverField \in GiverFields, pinField \in PinFields, now \in Times :
        GiverOf(giverField) \in disclosed =>
            reveal(St, giverField, pinField, now) = Outcome(St, Plain("AlreadyRevealed"))

\* C1 witness: a second reveal for an already shown participant was rejected
C1_Witness ==
    /\ last.op = "reveal"
    /\ GiverOf(last.args[1]) \in disclosed
    /\ last.response.status = "AlreadyRevealed"

\* C2: every mapping generate_secret_santa returns for a duplicate-free roster
\* is a bijection over the roster.
C2_Bijection == Returned => IsBijection(genResult.mapping, NAMES)

\* C2 witness: a mapping returned for a roster of three with a forbidden pair
C2_Witness ==
    /\ Returned
    /\ Len(NAMES) = 3
    /\ Cardinality(genResult.mapping) = 3
    /\ FORBIDDEN_PAIRS # {}

\* C3: no mapping generate_secret_santa returns assigns a participant to
\* themselves.
C3_NoSelf == Returned => NoSelfAssignment(genResult.mapping)

\* C3 witness: a mapping returned although no pair is forbidden
C3_Witness ==
    /\ Returned
    /\ genResult.mapping # {}
    /\ FORBIDDEN_PAIRS = {}

\* C4: no mapping generate_secret_santa returns holds a forbidden pair.
C4_NoForbidden == Returned => NoForbiddenPair(genResult.mapping)

\* C4 witness: the scenario roster [A, B, C] with forbidden {(A, B)} got a mapping
C4_Witness ==
    /\ Returned
    /\ NAMES = <<A, B, C>>
    /\ FORBIDDEN_PAIRS = {<<A, B>>}
    /\ [giver |-> A, receiver |-> C] \in genResult.mapping

\* participant giver is known and has not revealed yet
CanStillReveal(giver) == giver \in Range(NAMES) /\ giver \notin revealed_set(St)

\* what C5 promises of a reveal request: BadPin, no new reveal record
RejectedAsBadPin(giverField, pinField, now) ==
    reveal(St, giverField, pinField, now) = Outcome(init_db(St), Plain("BadPin"))

\* C5 as claimed: with PINs required, a reveal request for a known participant
\* who has not revealed yet, whose pin field differs from the configured PIN
\* (or who has none), is rejected as BadPin, records nothing, discloses nothing.
C5_AsClaimed ==
    \A giverField \in GiverFields, pinField \in PinFields, now \in Times :
        LET giver == GiverOf(giverField)
        IN  (/\ PIN_REQUIRED
             /\ CanStillReveal(giver)
             /\ (giver \notin DOMAIN PINS \/ pinField # PINS[giver]))
            => RejectedAsBadPin(giverField, pinField, now)

\* C5 amended: the same, for a pin field that differs from the configured PIN
\* once its leading and trailing whitespace is stripped.
C5_PinGating ==
    \A giverField \in GiverFields, pinField \in PinFields, now \in Times :
        LET giver == GiverOf(giverField)
        IN  (/\ PIN_REQUIRED
             /\ CanStillReveal(giver)
             /\ (giver \notin DOMAIN PINS \/ strip(Get(pinField, <<>>)) # PINS[giver]))
            => RejectedAsBadPin(giverField, pinField, now)

\* C5 witness: a wrong PIN was refused for a participant who has an assignment
\* and has not revealed
C5_Witness ==
    /\ PIN_REQUIRED
    /\ last.op = "reveal"
    /\ last.response.status = "BadPin"
    /\ GiverOf(last.args[1]) \in Givers(assignments)
    /\ GiverOf(last.args[1]) \notin revealed_set(St)
    /\ revealed # {}

\* C6: after a successful admin reset the reveal records are empty and the
\* assignment is a bijection over the roster with no self-assignment and no
\* forbidden pair.
C6_ResetFresh ==
    (last.op = "admin_reset" /\ last.response.status = "Redirect")
        => (revealed = {} /\ ValidAssignment(assignments))

\* C6 witness: an admin reset succeeded
C6_Witness ==
    /\ last.op = "admin_reset"
    /\ last.response.status = "Redirect"
    /\ Cardinality(assignments) = 3

\* the keys C7 and C10 say are refused: the secret is unset, or the key differs
RefusedKey(key) == ADMIN_KEY = None \/ key # ADMIN_KEY

\* C7: an admin reset whose key is refused (secret unset, or key different from
\* the secret) answers Unauthorized and changes neither table.
C7_ResetUnauthorized ==
    \A keyField \in KeyFields, out \in generate_secret_santa(NAMES) :
        RefusedKey(keyField) =>
            admin_reset(St, keyField, out) = Outcome(init_db(St), Plain("Unauthorized"))

\* C7 witness: a reset was refused while an assignment and reveal records exist
C7_Witness ==
    /\ last.op = "admin_reset"
    /\ last.response.status = "Unauthorized"
    /\ assignments # {}
    /\ revealed # {}

\* C8: while an assignment is persisted, a landing-page request changes neither
\* the assignment nor the reveal records, whatever its generator would draw.
C8_IndexIdempotent ==
    assignments # {} =>
        \A out \in generate_secret_santa(NAMES) :
            index(St, out).store = St

\* C8 witness: the landing page was served over an assignment with reveal records
C8_Witness ==
    /\ last.op = "index"
    /\ last.response.status = "Index"
    /\ assignments # {}
    /\ revealed # {}

\* the workers of a finished batch of one reveal and one admin reset
RevealResetBatches ==
    {b \in Workers \X Workers :
        /\ pc[b[1]] = "done" /\ req[b[1]].op = "reveal"
        /\ pc[b[2]] = "done" /\ req[b[2]].op = "admin_reset"}

\* responses and final store of the batch as it ran
Observed(r, a) == <<resp[r], resp[a], St>>

\* the same two requests served from snap one after the other, the reset
\* generating the mapping it generated
RevealThenReset(r, a) ==
    {LET o1 == reveal(snap, req[r].args[1], req[r].args[2], now)
         o2 == admin_reset(o1.store, req[a].args[1], loc[a].out)
     IN  <<o1.response, o2.response, o2.store>> : now \in Times}

ResetThenReveal(r, a) ==
    {LET o1 == admin_reset(snap, req[a].args[1], loc[a].out)
         o2 == reveal(o1.store, req[r].args[1], req[r].args[2], now)
     IN  <<o2.response, o1.response, o2.store>> : now \in Times}

\* C9: a reveal and a concurrent admin reset are serialized: when both have
\* answered, their responses and the final store are those of the reveal served
\* entirely before the reset, or entirely after it.
C9_RevealResetSerialized ==
    \A b \in RevealResetBatches :
        Observed(b[1], b[2]) \in RevealThenReset(b[1], b[2]) \cup ResetThenReveal(b[1], b[2])

\* C10: the admin view refuses the keys admin reset refuses: with the secret
\* unset, or a key different from the secret, it answers Unauthorized and lists
\* no row of either table.
C10_ViewSameRule ==
    (last.op = "admin_view" /\ RefusedKey(last.args[1]))
        => (/\ last.response.status = "Unauthorized"
            /\ ~last.response.listed
            /\ last.response.listedAssignments = {}
            /\ last.response.listedRevealed = {})

\* the PIN of a request does not pass for giver (both as reveal() reads them,
\* stripped)
WrongPin(giver, pin) ==
    PIN_REQUIRED /\ (giver \notin DOMAIN PINS \/ pin # PINS[giver])

HasAssignment(giver) == giver \in Givers(assignments)

StatusOf(giverField, pinField, now) ==
    reveal(St, giverField, pinField, now).response.status

\* C11: reveal answers with the reason of the first failing check in the
\* order InvalidName, AlreadyRevealed, BadPin, MissingAssignment: an unknown
\* name is InvalidName; a revealed participant is AlreadyRevealed whatever
\* the PIN; a wrong PIN of a participant not revealed is BadPin whether or not
\* an assignment is stored; MissingAssignment is left for a right PIN.
C11_ValidationOrder ==
    \A giverField \in GiverFields, pinField \in PinFields, now \in Times :
        LET giver == GiverOf(giverField)
            pin == strip(Get(pinField, <<>>))
            status == StatusOf(giverField, pinField, now)
        IN  /\ giver \notin Range(NAMES) => status = "InvalidName"
            /\ (giver \in Range(NAMES) /\ giver \in revealed_set(St))
                   => status = "AlreadyRevealed"
            /\ (CanStillReveal(giver) /\ WrongPin(giver, pin)) => status = "BadPin"
            /\ (CanStillReveal(giver) /\ ~WrongPin(giver, pin) /\ ~HasAssignment(giver))
                   => status = "MissingAssignment"
            /\ (CanStillReveal(giver) /\ ~WrongPin(giver, pin) /\ HasAssignment(giver))
                   => status = "Revealed"

\* C11 witness: a revealed participant with a wrong PIN was told AlreadyRevealed
C11_Witness ==
    /\ last.op = "reveal"
    /\ last.response.status = "AlreadyRevealed"
    /\ WrongPin(GiverOf(last.args[1]), strip(Get(last.args[2], <<>>)))

\* some permutation of the roster has no self-assignment and no forbidden pair
Feasible ==
    \E receivers \in Shuffles(NAMES) :
        \A i \in 1..Len(NAMES) :
            /\ receivers[i] # NAMES[i]
            /\ <<NAMES[i], receivers[i]>> \notin FORBIDDEN_PAIRS

AuthorizedKey(key) == ADMIN_KEY \notin {None, <<>>} /\ key = ADMIN_KEY

\* C12: when no permutation of the roster satisfies the constraints, the
\* generator can only raise, the store holds no assignment, and a landing-page
\* request or an authorized admin reset fails and leaves both tables as they
\* were.
C12_InfeasibleRaises ==
    ~Feasible =>
        /\ generate_secret_santa(NAMES) = {RuntimeError}
        /\ assignments = {}
        /\ \A out \in generate_secret_santa(NAMES) :
              /\ index(St, out) = Outcome(init_db(St), Plain("ServerError"))
              /\ \A keyField \in KeyFields :
                    AuthorizedKey(keyField) =>
                        admin_reset(St, keyField, out)
                            = Outcome(init_db(St), Plain("ServerError"))

\* C12 witness: an authorized admin reset failed over an infeasible roster
C12_Witness ==
    /\ ~Feasible
    /\ last.op = "admin_reset"
    /\ AuthorizedKey(last.args[1])
    /\ last.response.status = "ServerError"

Rejections == {"InvalidName", "AlreadyRevealed", "BadPin", "MissingAssignment"}

\* C16: a rejected reveal changes neither table, and a successful reveal of g
\* changes nothing but table revealed, which gains the one row of g.
C16_RevealFrame ==
    \A giverField \in GiverFields, pinField \in PinFields, now \in Times :
        LET o == reveal(St, giverField, pinField, now)
            giver == GiverOf(giverField)
        IN  /\ o.store.assignments = assignments
            /\ IF o.response.status = "Revealed"
               THEN /\ giver \notin revealed_set(St)
                    /\ o.store.revealed
                          = revealed \cup {[giver |-> giver, revealed_at |-> now]}
               ELSE /\ o.response.status \in Rejections
                    /\ o.store.revealed = revealed

\* C16 witness: a reveal before any assignment was generated was rejected as
\* MissingAssignment and both tables are empty
C16_Witness ==
    /\ last.op = "reveal"
    /\ last.response.status = "MissingAssignment"
    /\ assignments = {}
    /\ revealed = {}

\* worker w has answered a reveal request
DoneReveal(w) == pc[w] = "done" /\ req[w].op = "reveal"

\* the reveal request of worker w served alone from snap
Alone(w) == reveal(snap, req[w].args[1], req[w].args[2], loc[w].now)

\* the reveal request of worker w served after that of worker v, from snap
After(v, w) == reveal(Alone(v).store, req[w].args[1], req[w].args[2], loc[w].now)

\* finished batches of two reveal requests for different participants
DifferentGiverBatches ==
    {b \in Workers \X Workers :
        /\ b[1] # b[2]
        /\ DoneReveal(b[1]) /\ DoneReveal(b[2])
        /\ GiverOf(req[b[1]].args[1]) # GiverOf(req[b[2]].args[1])}

\* C13: two concurrent reveals for different participants do not interfere:
\* each gets the response it would get alone, the final store is that of
\* either serial order, and the assignment is unchanged.
C13_RevealsIndependent ==
    \A b \in DifferentGiverBatches :
        /\ resp[b[1]] = Alone(b[1]).response
        /\ resp[b[2]] = Alone(b[2]).response
        /\ St = After(b[1], b[2]).store
        /\ St = After(b[2], b[1]).store
        /\ assignments = snap.assignments

\* C13 witness: two concurrent reveals for different participants both succeeded
C13_Witness ==
    \E b \in DifferentGiverBatches :
        /\ resp[b[1]].status = "Revealed"
        /\ resp[b[2]].status = "Revealed"
        /\ {GiverOf(req[b[1]].args[1]), GiverOf(req[b[2]].args[1])} \subseteq revealed_set(St)

\* C14: mark_revealed run for a giver who already has a reveal record raises
\* nothing and leaves both tables, that record included, as they were.
C14_MarkIdempotent ==
    [][\A w \in Workers :
          (/\ pc[w] = "reveal_mark"
           /\ pc'[w] # "reveal_mark"
           /\ loc[w].giver \in revealed_set(St))
          => (/\ revealed' = revealed
              /\ assignments' = assignments
              /\ pc'[w] = "reveal_return")]_vars

\* worker w has run the mark_revealed of its reveal request
Marked(w) ==
    /\ req[w].op = "reveal"
    /\ \/ pc[w] = "reveal_return"
       \/ pc[w] = "done" /\ resp[w].status = "Revealed"

\* C14 witness: two workers marked the same giver at different times and the
\* table holds the one row of the first
C14_Witness ==
    \E v, w \in Workers :
        /\ Marked(v) /\ Marked(w)
        /\ loc[v].giver = loc[w].giver
        /\ loc[v].now # loc[w].now
        /\ Cardinality({r \in revealed : r.giver = loc[v].giver}) = 1

\* C15: a reveal request that has sent the receiver to its caller has recorded
\* the giver before, wherever the worker's process dies.
C15_MarkedBeforeDisclosed ==
    \A w \in Workers :
        (pc[w] = "done" /\ resp[w].status = "Revealed")
            => loc[w].giver \in revealed_set(St)

\* C15 witness: a worker died after mark_revealed and before the page was
\* returned
C15_Witness ==
    \E w \in Workers :
        /\ pc[w] = "done"
        /\ req[w].op = "reveal"
        /\ resp[w].status = "Crashed"
        /\ loc[w].giver \in revealed_set(St)
        /\ loc[w].giver \notin revealed_set(snap)

\* C17: with landing-page and reveal requests interleaved and no admin reset,
\* no step replaces an assignment once persisted or removes a reveal record.
C17_CreatedOnce ==
    [][assignments # {} =>
          (assignments' = assignments /\ revealed \subseteq revealed')]_vars

\* C18: the persisted assignment is always empty or a complete valid
\* permutation of the roster, and every step that changes it leaves no reveal
\* record.
C18_SaveAtomic ==
    /\ [](assignments = {} \/ ValidAssignment(assignments))
    /\ [][assignments' # assignments => revealed' = {}]_vars

\* C18 witness: an admin reset replaced an assignment that had reveal records
C18_Witness ==
    \E w \in Workers :
        /\ pc[w] = "done"
        /\ resp[w].status = "Redirect"
        /\ snap.revealed # {}
        /\ snap.assignments # {}
        /\ assignments # snap.assignments
        /\ revealed = {}

\* finished batches of two reveal requests with valid credentials for the same
\* participant, who had an assignment and no reveal record when they began
SameGiverBatches ==
    {b \in Workers \X Workers :
        /\ b[1] # b[2]
        /\ DoneReveal(b[1]) /\ DoneReveal(b[2])
        /\ loc[b[1]].giver = loc[b[2]].giver
        /\ Alone(b[1]).response.status = "Revealed"
        /\ Alone(b[2]).response.status = "Revealed"}

\* C19: of two concurrent reveals for the same participant with valid
\* credentials, one discloses the receiver and the other is rejected as
\* AlreadyRevealed.
C19_OneDisclosure ==
    \A b \in SameGiverBatches :
        {resp[b[1]].status, resp[b[2]].status} = {"Revealed", "AlreadyRevealed"}

=============================================================================
